---- MODULE Spec2Model ----
(***************************************************************************)
(* The panel controller of astro-bottomsheet (src/src/core/BottomSheet.ts) *)
(* and the hold helper (src/src/core/helpers.ts) as a state machine.       *)
(*                                                                         *)
(* The controller's fields, the panel's inline size, its class list and    *)
(* the pending timers are the state; every handler is one operator on the  *)
(* record of that state ("machine"), composed as the code composes its     *)
(* calls, and one action commits its result.                               *)
(*                                                                         *)
(* The browser is the environment: it delivers press, move and release     *)
(* events, lets time pass, fires due timers, and resolves the panel's      *)
(* rendered size from the inline size (layout).  Instants (Date.now(), the *)
(* due times of timers) are kept relative to the present: the present is   *)
(* Now = 0, a recorded instant is a number of ms before (negative) or      *)
(* after (positive) it, and the passing of time moves every recorded       *)
(* instant towards the past.  The stylesheet is not part of the sources,   *)
(* so the size the panel has without an inline size is a layout parameter  *)
(* fixed at construction (cssSize); the README gives a third of the        *)
(* viewport as the default width on desktop.                               *)
(*                                                                         *)
(* The instance registry (src/src/core/bottomSheetInstance.ts) and the     *)
(* listeners of the controller's events (on / off, the page's own          *)
(* addEventListener) are modelled beside the controller; each has a        *)
(* specification of its own calls (SpecRegistry, SpecListeners), and       *)
(* SpecContent adds the ResizeObserver that sizes the content wrapper.     *)
(***************************************************************************)
EXTENDS Integers, Sequences, FiniteSets, TLC

VARIABLES
    layout,       \* the environment's geometry and input device, fixed at construction
    timer,        \* hold(): the pending timer and the event it will deliver, or NoTimer
    state,        \* BottomSheet.state
    options,      \* BottomSheet.options (maxSize, minSize)
    style,        \* panel.style.height / panel.style.width, and the inline
                  \* height of #bottomsheet-content-wrapper (wrapper)
    classList,    \* panel.classList
    bodyClasses,  \* document.body.classList (the two classes the controller touches)
    contentHidden,\* #bottomsheet-content carries "overflow-hidden"
    cleanups,     \* the instants at which a pending
                  \* setTimeout(remove "bottomsheet-full", 300) is due
    events,       \* the events the most recent handler dispatched, in order
    gesture,      \* history: the current gesture as the pointer actually moved
    registry,     \* bottomSheetInstance.ts: the module's slot (instance) and
                  \* what the last call returned (ret); history: the instance
                  \* of the last set call not followed by a clear (last), and
                  \* whether clear was ever called (cleared)
    probe,        \* the scroll box inside the page (scroller, box, scrollTop)
                  \* and the last call of _anyScrollableAncestorCanMove made
                  \* on its own (asked, start, delta, result)
    emitter,      \* the event listeners: those of the panel and the document
                  \* (dom), BottomSheet._eventListeners (tracked), the ones
                  \* the last dispatch invoked (invoked); history: the ones
                  \* the page attached itself with addEventListener (direct)
    batch         \* helpers.ts: one call of processBatchAsync, its arguments
                  \* (items, batchSize), its closure (currentIndex), whether
                  \* processBatch is scheduled, and the calls of the callback
                  \* so far (calls), those of the last batch counted (last);
                  \* history: whether processBatch ran an odd number of
                  \* times (odd)

(* The controller and its environment *)
panel == <<layout, timer, state, options, style, classList,
           bodyClasses, contentHidden, cleanups, events, gesture>>

vars == <<panel, registry, emitter, probe, batch>>

-----------------------------------------------------------------------------
(* Program constants *)

HoldDelay == 25
DurationThreshold == 500
MoveThreshold == 5
CleanupDelay == 300
DefaultMaxSize == 500
DefaultMinSize == 40
MobileBreakpoint == 768
ScrollEpsilon == 5

(* Bounds of the model *)

TickStep == 501      \* time passes in steps of TickStep ms
Horizon == 501       \* an instant further back than this counts as Horizon ms ago
MaxMovement == 9     \* a gesture accumulates at most this much movement
MaxInstances == 4    \* the controllers a page constructs and may register
MaxTracked == 2      \* on() is called at most this often between two off()
MaxDirect == 1       \* the page attaches at most this many listeners itself
MaxItems == 3        \* processBatchAsync is given at most this many items
MaxBatchSize == 3    \* and a batch size from 0 to this

-----------------------------------------------------------------------------
(* Values *)

NoTimer == [pending |-> FALSE]
NoSize == [u |-> "none", v |-> 0]          \* style.height = ""
Px(n) == [u |-> "px", v |-> n]             \* style.height = `${n}px`
Pct(n) == [u |-> "pct", v |-> n]           \* style.height = "50%"

Abs(x) == IF x < 0 THEN -x ELSE x
Min2(a, b) == IF a < b THEN a ELSE b       \* Math.min
Max2(a, b) == IF a > b THEN a ELSE b       \* Math.max

(* The mount's geometry: the screen, the container's height, the summed    *)
(* heights of #bottomsheet-header and #bottomsheet-drag-handle, the size   *)
(* layout gives the panel on the drag axis when no inline size is set, and *)
(* the kind of pointer events the device produces.                         *)
Layouts ==
    { [screenWidth |-> 390, containerHeight |-> 380, anchorsHeight |-> 60,
       cssSize |-> 231, input |-> "touch"],
      [screenWidth |-> 900, containerHeight |-> 800, anchorsHeight |-> 60,
       cssSize |-> 300, input |-> "mouse"],
      [screenWidth |-> 1920, containerHeight |-> 1000, anchorsHeight |-> 60,
       cssSize |-> 640, input |-> "mouse"],
      [screenWidth |-> 900, containerHeight |-> 800, anchorsHeight |-> 60,
       cssSize |-> 300, input |-> "touch"] }

(* The panel's subtree: element -> parent.  "list" is a scrollable box     *)
(* inside the content region; "closeBtn" is a button inside the header and *)
(* "icon" its image, "grip" a .no-drag element inside the handle, "link"   *)
(* an anchor inside a list item, "footer" a child of the panel outside the *)
(* handle, the header and the content region.                              *)
Parent ==
    [ e \in {"handle", "grip", "header", "closeBtn", "icon", "content", "list",
             "item", "link", "footer", "panel", "container"} |->
        CASE e = "handle" -> "panel"
          [] e = "grip" -> "handle"
          [] e = "header" -> "panel"
          [] e = "closeBtn" -> "header"
          [] e = "icon" -> "closeBtn"
          [] e = "content" -> "panel"
          [] e = "list" -> "content"
          [] e = "item" -> "list"
          [] e = "link" -> "item"
          [] e = "footer" -> "panel"
          [] e = "panel" -> "container"
          [] e = "container" -> "body" ]

\* elements matching interactiveSelector
Interactive == {"closeBtn", "grip", "link"}
PressTargets == {"handle", "closeBtn"}
MoveTargets == {"handle", "item"}
PressPoints == {200}
MovePoints == {194, 200, 203}
ScrollTops == {0, 200}                      \* scrollTop of "list" at event time

(* Computed style and scroll geometry of the elements; scrollTop of "list"  *)
(* is read at event time and comes with the event.                         *)
ListBox == [overflowY |-> "auto", scrollHeight |-> 300, clientHeight |-> 100]

Dom ==
    [ e \in DOMAIN Parent |->
        IF e = probe.scroller
        THEN probe.box
        ELSE [overflowY |-> "visible", scrollHeight |-> 100, clientHeight |-> 100] ]

ScrollTopOf(el, e) == IF el = probe.scroller THEN e.scrollTop ELSE 0

(* The events the browser delivers.  A move event may have any target: a   *)
(* mouse move has the element under the pointer, a touch move the element  *)
(* the touch began on.                                                     *)
PressEvents ==
    { [kind |-> layout.input, target |-> t, clientX |-> p, clientY |-> p] :
        t \in PressTargets, p \in PressPoints }

MoveEvents ==
    { [kind |-> layout.input, target |-> t, clientX |-> p, clientY |-> p,
       scrollTop |-> st] :
        t \in MoveTargets, p \in MovePoints, st \in ScrollTops }

-----------------------------------------------------------------------------
(* helpers.ts *)

Now == 0        \* Date.now(): the present instant

isMobile == layout.screenWidth < MobileBreakpoint

(* Element.closest(selector): does el or one of its ancestors lie in S *)
RECURSIVE closest(_, _)
closest(el, S) ==
    IF el \in S THEN TRUE
    ELSE IF el \in DOMAIN Parent THEN closest(Parent[el], S)
    ELSE FALSE

-----------------------------------------------------------------------------
(* bottomSheetInstance.ts: the functions, on the value of the module's     *)
(* slot.  A controller is known by its identity; a getter gives the value  *)
(* it returns or the error it throws.                                      *)

Null == 0
Instances == 1..MaxInstances

Returned(op, v) == [op |-> op, threw |-> FALSE, value |-> v]
Thrown(op) == [op |-> op, threw |-> TRUE, value |-> Null]

(* setBottomSheet that keeps an instance that is already registered *)
setBottomSheetOnce(slot, instance) == IF slot = Null THEN instance ELSE slot

setBottomSheet(slot, instance) == instance

getBottomSheet(slot) == Returned("get", slot)

getBottomSheetOrThrow(slot) ==
    IF slot = Null THEN Thrown("getOrThrow") ELSE Returned("getOrThrow", slot)

isBottomSheetInitialized(slot) == Returned("isInitialized", slot # Null)

clearBottomSheet(slot) == Null

-----------------------------------------------------------------------------
(* Layout: the rendered size of the panel for its inline size *)

offsetHeight(m) ==
    CASE m.style.height.u = "px" -> m.style.height.v
      [] m.style.height.u = "pct" -> (layout.containerHeight * m.style.height.v) \div 100
      [] OTHER -> layout.cssSize

offsetWidth(m) ==
    CASE m.style.width.u = "px" -> m.style.width.v
      [] OTHER -> layout.cssSize

-----------------------------------------------------------------------------
(* BottomSheet.ts: the handlers, as functions of the machine record        *)
(*   m = [state, options, style, classList, bodyClasses, contentHidden,    *)
(*        cleanups, events]                                                *)

dispatchEvent(m, name) == [m EXCEPT !.events = Append(@, name)]

updateSizeLimits(m) ==
    IF isMobile
    THEN [m EXCEPT !.options.maxSize = (layout.containerHeight * 95) \div 100,
                   !.options.minSize = layout.anchorsHeight]
    ELSE [m EXCEPT !.options.maxSize = 500,
                   !.options.minSize = 40]

showPanelContent(m) ==
    [m EXCEPT !.classList = (@ \cup {"bottomsheet-open"})
                              \ {"bottomsheet-updating", "bottomsheet-minimized"},
              !.style.width = NoSize,
              !.style.height = NoSize,
              !.state.isOpen = TRUE,
              !.state.isMinimized = FALSE,
              !.state.isUpdating = FALSE]

(* hidePanelContent() that leaves the maximized flag as it is *)
hidePanelContentKeepsMax(m) ==
    [m EXCEPT !.state.isMinimized = TRUE,
              !.classList = (@ \cup {"bottomsheet-minimized"}) \ {"bottomsheet-full"}]

hidePanelContent(m) ==
    [m EXCEPT !.state.isMinimized = TRUE,
              !.state.isMaximized = FALSE,
              !.classList = (@ \cup {"bottomsheet-minimized"}) \ {"bottomsheet-full"}]

setMaxSize(m) ==
    LET m1 == [showPanelContent(m) EXCEPT !.state.isMaximized = TRUE]
        m2 == IF isMobile
              THEN [m1 EXCEPT !.style.height = Px(m1.options.maxSize),
                              !.classList = @ \cup {"bottomsheet-full"}]
              ELSE [m1 EXCEPT !.style.width = Px(m1.options.maxSize)]
    IN  dispatchEvent(m2, "maxsize")

setMidSize(m) ==
    IF isMobile
    THEN LET m1 == showPanelContent([m EXCEPT !.state.isMaximized = FALSE])
             m2 == [m1 EXCEPT !.style.height = Pct(50),
                              !.cleanups = @ \cup {Now + CleanupDelay}]
         IN  dispatchEvent(m2, "midsize")
    ELSE setMaxSize(m)

setMinSize(m) ==
    LET m1 == hidePanelContent(m)
        m2 == IF isMobile
              THEN [m1 EXCEPT !.style.height = Px(m1.options.minSize),
                              !.cleanups = @ \cup {Now + CleanupDelay}]
              ELSE [m1 EXCEPT !.style.width = NoSize]
    IN  dispatchEvent(m2, "minsize")

(* open() that does not look at the updating flag *)
openIgnoresUpdating(m) ==
    LET m1 == updateSizeLimits(m)
    IN  IF m1.state.isOpen
        THEN setMidSize(m1)
        ELSE dispatchEvent(
                showPanelContent([m1 EXCEPT !.style.wrapper = NoSize]), "open")

open(m) ==
    LET m1 == updateSizeLimits(m)
    IN  IF m1.state.isOpen /\ ~m1.state.isUpdating
        THEN setMidSize(m1)
        ELSE dispatchEvent(
                showPanelContent([m1 EXCEPT !.style.wrapper = NoSize]), "open")

(* close() that leaves the open flag set *)
closeKeepsOpenFlag(m) ==
    dispatchEvent(
        [m EXCEPT !.classList = @ \ {"bottomsheet-open"},
                  !.style.height = NoSize,
                  !.style.width = NoSize,
                  !.state.isMinimized = FALSE],
        "close")

close(m) ==
    dispatchEvent(
        [m EXCEPT !.classList = @ \ {"bottomsheet-open"},
                  !.style.height = NoSize,
                  !.style.width = NoSize,
                  !.state.isOpen = FALSE,
                  !.state.isMinimized = FALSE],
        "close")

(* minimize() without the test of the open and minimized flags *)
minimizeUnguarded(m) ==
    LET m1 == [hidePanelContent(m) EXCEPT !.state.isMinimized = TRUE]
        m2 == IF isMobile
              THEN [m1 EXCEPT !.style.height = Px(m1.options.minSize)]
              ELSE [m1 EXCEPT !.style.width = NoSize]
    IN  dispatchEvent(m2, "minimized")

minimize(m) ==
    IF ~m.state.isOpen \/ m.state.isMinimized THEN m
    ELSE LET m1 == [hidePanelContent(m) EXCEPT !.state.isMinimized = TRUE]
             m2 == IF isMobile
                   THEN [m1 EXCEPT !.style.height = Px(m1.options.minSize)]
                   ELSE [m1 EXCEPT !.style.width = NoSize]
         IN  dispatchEvent(m2, "minimized")

updatePanel(m) ==
    IF ~m.state.isOpen THEN m
    ELSE dispatchEvent(
            [m EXCEPT !.classList = @ \cup {"bottomsheet-updating"},
                      !.state.isUpdating = TRUE],
            "updating")

(* The ResizeObserver's callback.  The wrapper lies below the header and   *)
(* the drag handle (offsetTop); a negative length is not a valid height,   *)
(* and the assignment of an invalid value leaves the property as it was.   *)
adjustContentHeight(m) ==
    IF ~isMobile \/ m.state.isUpdating THEN m
    ELSE LET h == offsetHeight(m) - layout.anchorsHeight
         IN  IF h < 0 THEN m ELSE [m EXCEPT !.style.wrapper = Px(h)]

-----------------------------------------------------------------------------
(* BottomSheet.ts: the gesture classifier *)

isScrollableY(el) ==
    /\ el # "panel"
    /\ Dom[el].overflowY \in {"auto", "scroll"}
    /\ Dom[el].scrollHeight > Dom[el].clientHeight

(* _canScrollYInDirection that takes any scrollTop above 0 as room *)
canScrollYInDirectionNoEpsilon(el, delta, e) ==
    IF ~isScrollableY(el) THEN FALSE
    ELSE IF delta > 0 THEN ScrollTopOf(el, e) > 0
    ELSE IF delta < 0
         THEN ScrollTopOf(el, e) + Dom[el].clientHeight < Dom[el].scrollHeight
    ELSE FALSE

canScrollYInDirection(el, delta, e) ==
    IF ~isScrollableY(el) THEN FALSE
    ELSE IF delta > 0 THEN ScrollTopOf(el, e) > ScrollEpsilon
    ELSE IF delta < 0
         THEN ScrollTopOf(el, e) + Dom[el].clientHeight < Dom[el].scrollHeight
    ELSE FALSE

RECURSIVE anyScrollableAncestorCanMove(_, _, _)
anyScrollableAncestorCanMove(el, delta, e) ==
    IF el \notin DOMAIN Parent \/ el = "panel" THEN FALSE
    ELSE IF canScrollYInDirection(el, delta, e) THEN TRUE
    ELSE anyScrollableAncestorCanMove(Parent[el], delta, e)

isInteractiveTarget(target) == closest(target, Interactive)

(* _isDragZone without the test for an interactive origin *)
isDragZoneNoInteractive(target) ==
    IF closest(target, {"handle"}) THEN TRUE
    ELSE IF closest(target, {"header"}) THEN TRUE
    ELSE IF closest(target, {"content"}) THEN TRUE
    ELSE FALSE

isDragZone(target) ==
    IF isInteractiveTarget(target) THEN FALSE
    ELSE IF closest(target, {"handle"}) THEN TRUE
    ELSE IF closest(target, {"header"}) THEN TRUE
    ELSE IF closest(target, {"content"}) THEN TRUE
    ELSE FALSE

-----------------------------------------------------------------------------
(* BottomSheet.ts: the drag handlers *)

onStart(m, e) ==
    IF ~isDragZone(e.target) THEN m
    ELSE
      LET m1 == IF m.state.isMaximized THEN [m EXCEPT !.contentHidden = FALSE] ELSE m
          m2 == [m1 EXCEPT !.state.isDragging = TRUE,
                           !.state.dragStart = Now,
                           !.state.hasMoved = FALSE,
                           !.state.totalMovement = 0]
          m3 == showPanelContent(m2)
          m4 == IF isMobile
                THEN [m3 EXCEPT !.state.startPoint = e.clientY,
                                !.state.startSize = offsetHeight(m3),
                                !.state.prevPoint = e.clientY]
                ELSE [m3 EXCEPT !.state.startPoint = e.clientX,
                                !.state.startSize = offsetWidth(m3)]
      IN  [m4 EXCEPT !.bodyClasses = @ \cup {"select-none", "overflow-hidden"}]

(* _onMoveMobile without the hand-over to a scrollable ancestor *)
onMoveMobileNoCede(m, e) ==
    LET currentPoint == e.clientY
        diff == m.state.startPoint - currentPoint
        delta == currentPoint - m.state.prevPoint
        total == m.state.totalMovement + Abs(delta)
        m1 == [m EXCEPT !.state.prevPoint = currentPoint,
                        !.state.totalMovement = total]
        m2 == IF total > MoveThreshold
              THEN [m1 EXCEPT !.state.hasMoved = TRUE,
                              !.classList = @ \cup {"bottomsheet-dragging"}]
              ELSE m1
        newSize == Max2(m2.options.minSize,
                        Min2(m2.options.maxSize, m2.state.startSize + diff))
    IN  [m2 EXCEPT !.style.height = Px(newSize)]

onMoveMobile(m, e) ==
    LET currentPoint == e.clientY
        diff == m.state.startPoint - currentPoint
        delta == currentPoint - m.state.prevPoint
        total == m.state.totalMovement + Abs(delta)
        m1 == [m EXCEPT !.state.prevPoint = currentPoint,
                        !.state.totalMovement = total]
        m2 == IF total > MoveThreshold
              THEN [m1 EXCEPT !.state.hasMoved = TRUE,
                              !.classList = @ \cup {"bottomsheet-dragging"}]
              ELSE m1
        m3 == IF delta < 0
              THEN [m2 EXCEPT !.classList = (@ \cup {"bottomsheet-move-up"})
                                               \ {"bottomsheet-move-down"},
                              !.contentHidden = ~m2.state.isMaximized]
              ELSE [m2 EXCEPT !.classList = (@ \ {"bottomsheet-move-up"})
                                               \cup {"bottomsheet-move-down"},
                              !.contentHidden = FALSE]
        newSize == Max2(m3.options.minSize,
                        Min2(m3.options.maxSize, m3.state.startSize + diff))
    IN  IF anyScrollableAncestorCanMove(e.target, delta, e)
        THEN [m3 EXCEPT !.state.isDragging = FALSE]
        ELSE [m3 EXCEPT !.style.height = Px(newSize)]

(* _onMoveDesktop without the clamp to [minSize, maxSize] *)
onMoveDesktopUnclamped(m, e) ==
    LET currentPoint == e.clientX
        diff == m.state.startPoint - currentPoint
        total == m.state.totalMovement + Abs(diff - m.state.lastDiff)
        m1 == [m EXCEPT !.state.totalMovement = total,
                        !.state.lastDiff = diff]
        m2 == IF total > MoveThreshold
              THEN [m1 EXCEPT !.state.hasMoved = TRUE,
                              !.classList = @ \cup {"bottomsheet-dragging"}]
              ELSE m1
    IN  [m2 EXCEPT !.style.width = Px(m2.state.startSize + diff)]

onMoveDesktop(m, e) ==
    LET currentPoint == e.clientX
        diff == m.state.startPoint - currentPoint
        total == m.state.totalMovement + Abs(diff - m.state.lastDiff)
        m1 == [m EXCEPT !.state.totalMovement = total,
                        !.state.lastDiff = diff]
        m2 == IF total > MoveThreshold
              THEN [m1 EXCEPT !.state.hasMoved = TRUE,
                              !.classList = @ \cup {"bottomsheet-dragging"}]
              ELSE m1
        newSize == Max2(m2.options.minSize,
                        Min2(m2.options.maxSize, m2.state.startSize + diff))
    IN  [m2 EXCEPT !.style.width = Px(newSize)]

(* _onMove that reports only the moves that leave the drag active *)
onMoveSilentCede(m, e) ==
    IF ~m.state.isDragging THEN m
    ELSE LET m1 == IF isMobile /\ e.kind = "touch" THEN onMoveMobile(m, e)
                   ELSE IF e.kind = "mouse" THEN onMoveDesktop(m, e)
                   ELSE m
         IN  IF m1.state.isDragging THEN dispatchEvent(m1, "dragging") ELSE m1

onMove(m, e) ==
    IF ~m.state.isDragging THEN m
    ELSE LET m1 == IF isMobile /\ e.kind = "touch" THEN onMoveMobile(m, e)
                   ELSE IF e.kind = "mouse" THEN onMoveDesktop(m, e)
                   ELSE m
         IN  dispatchEvent(m1, "dragging")

(* _onEndMobile where a panel that grew always snaps to the maximum *)
onEndMobileGrowMax(m) ==
    LET m1 == [m EXCEPT !.options.minSize = layout.anchorsHeight]
        finalSize == offsetHeight(m1)
        startSize == m1.state.startSize
        above == finalSize * 10 > m1.options.maxSize * 6
        below == finalSize * 10 < m1.options.maxSize * 6
        m2 == IF finalSize < startSize /\ above
              THEN setMidSize(m1)
              ELSE IF finalSize < startSize /\ below
              THEN setMinSize(m1)
              ELSE setMaxSize(m1)
    IN  IF m2.state.isMaximized THEN [m2 EXCEPT !.contentHidden = FALSE] ELSE m2

onEndMobile(m) ==
    LET m1 == [m EXCEPT !.options.minSize = layout.anchorsHeight]
        finalSize == offsetHeight(m1)
        startSize == m1.state.startSize
        \* finalSize > maxSize * 0.6, in tenths
        above == finalSize * 10 > m1.options.maxSize * 6
        below == finalSize * 10 < m1.options.maxSize * 6
        m2 == IF (finalSize < startSize /\ above) \/ (finalSize > startSize /\ below)
              THEN setMidSize(m1)
              ELSE IF finalSize < startSize /\ below
              THEN setMinSize(m1)
              ELSE setMaxSize(m1)
    IN  IF m2.state.isMaximized THEN [m2 EXCEPT !.contentHidden = FALSE] ELSE m2

(* _onEndDesktop where an unchanged width snaps to the minimum *)
onEndDesktopLeq(m) ==
    LET m1 == [m EXCEPT !.options.minSize = 40]
        finalSize == offsetWidth(m1)
    IN  IF finalSize <= m1.state.startSize THEN setMinSize(m1) ELSE setMaxSize(m1)

onEndDesktop(m) ==
    LET m1 == [m EXCEPT !.options.minSize = 40]
        finalSize == offsetWidth(m1)
    IN  IF finalSize < m1.state.startSize THEN setMinSize(m1) ELSE setMaxSize(m1)

(* _onEnd without the test of the drag's duration *)
onEndAnyDuration(m) ==
    IF ~m.state.isDragging THEN m
    ELSE
      LET hadMovement == m.state.hasMoved
          m1 == [m EXCEPT !.state.hasMoved = FALSE,
                          !.state.isDragging = FALSE,
                          !.classList = @ \ {"bottomsheet-dragging"},
                          !.bodyClasses = @ \ {"select-none", "overflow-hidden"}]
      IN  IF ~hadMovement THEN m1
          ELSE IF isMobile THEN onEndMobile(m1)
          ELSE onEndDesktop(m1)

onEnd(m) ==
    IF ~m.state.isDragging THEN m
    ELSE
      LET dragDuration == Now - m.state.dragStart
          hadMovement == m.state.hasMoved
          m1 == [m EXCEPT !.state.hasMoved = FALSE,
                          !.state.isDragging = FALSE,
                          !.classList = @ \ {"bottomsheet-dragging"},
                          !.bodyClasses = @ \ {"select-none", "overflow-hidden"}]
      IN  IF ~hadMovement THEN m1
          ELSE IF dragDuration > DurationThreshold THEN m1
          ELSE IF isMobile THEN onEndMobile(m1)
          ELSE onEndDesktop(m1)

-----------------------------------------------------------------------------
(* helpers.ts: hold(fn, delay) *)

(* hold.start that restarts a pending timer with the new event *)
holdStartRestart(t, e) == [pending |-> TRUE, e |-> e, due |-> Now + HoldDelay]

holdStart(t, e) ==
    IF t.pending THEN t
    ELSE [pending |-> TRUE, e |-> e, due |-> Now + HoldDelay]

holdCancel(t) == IF t.pending THEN NoTimer ELSE t

-----------------------------------------------------------------------------
(* The events the controller dispatches and their listeners.  A listener   *)
(* is [node, type, handler, capture]; the panel lies inside the document.  *)

EventTypes == {"open", "close"}             \* bottomsheet:open, bottomsheet:close
Handlers == {"f", "g"}                      \* the functions the page passes
Nodes == {"panel", "document"}
OnCaptures == {FALSE}                       \* on(type, handler): options = {}
Detail == [element |-> "panel"]             \* { element: this.panel }
Bubbles == FALSE                            \* new CustomEvent(name, { detail })

Listener(node, type, handler, capture) ==
    [node |-> node, type |-> type, handler |-> handler, capture |-> capture]

(* EventTarget.addEventListener / removeEventListener: a listener is known *)
(* by its type, its callback and its capture flag                          *)
addEventListener(dom, l) == dom \cup {l}

removeEventListener(dom, l) == dom \ {l}

(* The argument of off(type): not passed (null by default) or a string *)
NoArg == [passed |-> FALSE, type |-> ""]
Arg(type) == [passed |-> TRUE, type |-> type]
Truthy(arg) == arg.passed /\ arg.type # ""

on(em, type, handler, capture) ==
    [em EXCEPT !.dom = addEventListener(@, Listener("panel", type, handler, capture)),
               !.tracked = Append(@, [type |-> type, handler |-> handler,
                                      capture |-> capture])]

RECURSIVE removeAll(_, _)
removeAll(dom, entries) ==
    IF entries = <<>> THEN dom
    ELSE removeAll(removeEventListener(dom,
                        Listener("panel", Head(entries).type, Head(entries).handler,
                                 Head(entries).capture)),
                   Tail(entries))

off(em, arg) ==
    LET ofType(entry) == entry.type = arg.type
        notOfType(entry) == entry.type # arg.type
    IN  IF Truthy(arg)
        THEN [em EXCEPT !.dom = removeAll(@, SelectSeq(em.tracked, ofType)),
                        !.tracked = SelectSeq(@, notOfType)]
        ELSE [em EXCEPT !.dom = removeAll(@, em.tracked),
                        !.tracked = <<>>]

(* panel.dispatchEvent(event): the listeners of the panel for the event's  *)
(* type are invoked, and of the panel's ancestors those that capture, or   *)
(* all of them if the event bubbles                                        *)
hears(l, name) ==
    /\ l.type = name
    /\ l.node = "panel" \/ l.capture \/ Bubbles

deliver(em, evs) ==
    [em EXCEPT !.invoked =
        {[listener |-> l, detail |-> Detail] :
            l \in {x \in em.dom : \E i \in DOMAIN evs : hears(x, evs[i])}}]

(* isMaximized(): the panel is open and its maximized flag is set *)
isMaximized(m) == m.state.isOpen /\ m.state.isMaximized

-----------------------------------------------------------------------------
(* The state machine *)

Machine ==
    [state |-> state, options |-> options, style |-> style,
     classList |-> classList, bodyClasses |-> bodyClasses,
     contentHidden |-> contentHidden, cleanups |-> cleanups, events |-> <<>>]

(* The rendered size of the panel on the device's axis *)
SizeOf(st) == IF isMobile THEN offsetHeight([style |-> st])
              ELSE offsetWidth([style |-> st])

PanelSize == SizeOf(style)

(* A gesture is open from the press that arms the hold timer until the     *)
(* timer is cancelled or the drag it starts has ended.                     *)
InGesture(t, st) == t.pending \/ st.isDragging

(* History of the gesture, as the pointer actually moved: size0, the size  *)
(* the panel had before the open gesture (the current size when none is    *)
(* open, or as a public method set it since); pos, the pointer's last      *)
(* position on the drag axis and moved, the distance it travelled, since   *)
(* the last promotion (0 when no drag is active); again, whether a further *)
(* press arrived while the hold timer was pending (noted by PressNoted);   *)
(* down, whether the pointer is held down (noted by PressDown, ReleaseUp). *)
GestureAfter(t, m, mv, p) ==
    [size0 |-> IF InGesture(t, m.state) THEN gesture.size0 ELSE SizeOf(m.style),
     moved |-> IF m.state.isDragging THEN mv ELSE 0,
     pos |-> IF m.state.isDragging THEN p ELSE 0,
     again |-> t.pending /\ gesture.again,
     down |-> gesture.down]

Commit(m) ==
    /\ m.state.totalMovement <= MaxMovement
    /\ state' = m.state
    /\ options' = m.options
    /\ style' = m.style
    /\ classList' = m.classList
    /\ bodyClasses' = m.bodyClasses
    /\ contentHidden' = m.contentHidden
    /\ cleanups' = m.cleanups
    /\ events' = m.events
    /\ emitter' = deliver(emitter, m.events)
    /\ UNCHANGED <<registry, probe, batch>>

Init ==
    /\ layout \in Layouts
    /\ timer = NoTimer
    /\ state = [startPoint |-> 0, startSize |-> 0, prevPoint |-> 0, lastDiff |-> 0,
                isDragging |-> FALSE, isOpen |-> FALSE, isMinimized |-> FALSE,
                isMaximized |-> FALSE, isUpdating |-> FALSE, dragStart |-> -Horizon,
                hasMoved |-> FALSE, totalMovement |-> 0]
    /\ options = [maxSize |-> DefaultMaxSize, minSize |-> DefaultMinSize]
    /\ style = [height |-> NoSize, width |-> NoSize, wrapper |-> NoSize]
    /\ classList = {}
    /\ bodyClasses = {}
    /\ contentHidden = FALSE
    /\ cleanups = {}
    /\ events = <<>>
    /\ gesture = [size0 |-> layout.cssSize, moved |-> 0, pos |-> 0, again |-> FALSE,
                  down |-> FALSE]
    /\ registry = [instance |-> Null, ret |-> Returned("load", Null),
                   last |-> Null, cleared |-> FALSE]
    /\ emitter = [dom |-> {}, tracked |-> <<>>, invoked |-> {}, direct |-> {}]
    /\ probe = [scroller |-> "list", box |-> ListBox, scrollTop |-> 0,
                asked |-> FALSE, start |-> "item", delta |-> 0, result |-> FALSE]
    /\ batch = [called |-> FALSE, items |-> <<>>, batchSize |-> 0,
                currentIndex |-> 0, scheduled |-> FALSE, calls |-> <<>>,
                last |-> 0, odd |-> FALSE]

(* TickStep ms pass: every recorded instant is TickStep ms further back.    *)
(* A due time that has passed stays "due"; a start time older than Horizon *)
(* stays Horizon ms old.                                                   *)
Tick ==
    /\ state' = [state EXCEPT !.dragStart = Max2(@ - TickStep, -Horizon)]
    /\ timer' = IF timer.pending
                THEN [timer EXCEPT !.due = Max2(@ - TickStep, 0)]
                ELSE timer
    /\ cleanups' = {Max2(d - TickStep, 0) : d \in cleanups}
    /\ events' = <<>>
    /\ emitter' = deliver(emitter, <<>>)
    /\ UNCHANGED <<layout, options, style, classList,
                   bodyClasses, contentHidden, gesture, registry, probe, batch>>

(* The timer a release leaves: mouseup / touchend on the panel reach       *)
(* hold.cancel; a release anywhere else, mouseleave and touchcancel do not *)
ReleaseTimer(onPanel) == IF onPanel THEN holdCancel(timer) ELSE timer

(* mousedown / touchstart on the panel: hold.start *)
PressOn(e) ==
    /\ timer' = holdStart(timer, e)
    /\ events' = <<>>
    /\ emitter' = deliver(emitter, <<>>)
    /\ UNCHANGED <<layout, state, options, style, classList, bodyClasses,
                   contentHidden, cleanups, registry, probe, batch>>

Press ==
    /\ \E e \in PressEvents : PressOn(e)
    /\ gesture' = gesture

(* The same, keeping note of a press that finds the hold timer pending *)
PressNoted ==
    /\ \E e \in PressEvents : PressOn(e)
    /\ gesture' = [gesture EXCEPT !.again = timer.pending]

(* The hold timer fires: fn.call(e.currentTarget, e), then timer = null *)
HoldFires ==
    /\ timer.pending
    /\ Now >= timer.due
    /\ LET m == onStart(Machine, timer.e)
           p == IF isMobile THEN timer.e.clientY ELSE timer.e.clientX
       IN  /\ Commit(m)
           /\ gesture' = IF isDragZone(timer.e.target)
                         THEN GestureAfter(NoTimer, m, 0, p)
                         ELSE GestureAfter(NoTimer, m, gesture.moved, gesture.pos)
    /\ timer' = NoTimer
    /\ UNCHANGED layout

(* mousemove / touchmove on the document *)
MoveOn(e) ==
    /\ LET m == onMove(Machine, e)
           p == IF isMobile THEN e.clientY ELSE e.clientX
           mv == gesture.moved + Abs(p - gesture.pos)
       IN  /\ Commit(m)
           /\ state.isDragging => mv <= MaxMovement
           /\ gesture' = IF state.isDragging
                         THEN GestureAfter(timer, m, mv, p)
                         ELSE gesture
    /\ UNCHANGED <<layout, timer>>

Move == \E e \in MoveEvents : MoveOn(e)

(* mouseup / touchend: on the panel it reaches hold.cancel and then, on the *)
(* document, _onEnd; anywhere else (and for mouseleave / touchcancel) it   *)
(* reaches _onEnd alone.                                                   *)
Release ==
    /\ \E onPanel \in BOOLEAN :
        LET t == ReleaseTimer(onPanel)
            m == onEnd(Machine)
        IN  /\ timer' = t
            /\ Commit(m)
            /\ gesture' = GestureAfter(t, m, gesture.moved, gesture.pos)
    /\ UNCHANGED layout

(* The deferred class cleanups of setMidSize / setMinSize due at one        *)
(* instant fire: each removes the same class                               *)
CleanupFires ==
    /\ \E d \in cleanups :
        /\ Now >= d
        /\ cleanups' = cleanups \ {d}
    /\ classList' = classList \ {"bottomsheet-full"}
    /\ events' = <<>>
    /\ emitter' = deliver(emitter, <<>>)
    /\ UNCHANGED <<layout, timer, state, options, style,
                   bodyClasses, contentHidden, gesture, registry, probe, batch>>

(* The ResizeObserver on the panel reports.  The panel's box follows its   *)
(* inline size and its classes through the stylesheet, so a report may     *)
(* come after any step.                                                    *)
AdjustContentHeight ==
    /\ Commit(adjustContentHeight(Machine))
    /\ UNCHANGED <<layout, timer, gesture>>

(* A call of a public method *)
Api(m) ==
    /\ Commit(m)
    /\ gesture' = [gesture EXCEPT !.size0 = SizeOf(m.style)]
    /\ UNCHANGED <<layout, timer>>

Open == Api(open(Machine))
Close == Api(close(Machine))
Minimize == Api(minimize(Machine))
UpdatePanel == Api(updatePanel(Machine))
SetMinSize == Api(setMinSize(Machine))
SetMidSize == Api(setMidSize(Machine))
SetMaxSize == Api(setMaxSize(Machine))

Next ==
    \/ Tick
    \/ Press
    \/ HoldFires
    \/ Move
    \/ Release
    \/ CleanupFires
    \/ Open
    \/ Close
    \/ Minimize
    \/ UpdatePanel
    \/ SetMinSize
    \/ SetMidSize
    \/ SetMaxSize

Spec == Init /\ [][Next]_vars

(* The pointer events and the timers alone, presses noted *)
NextGestures ==
    \/ Tick
    \/ PressNoted
    \/ HoldFires
    \/ Move
    \/ Release
    \/ CleanupFires

SpecGestures == Init /\ [][NextGestures]_vars

(* One pointer: a press while the pointer is up, and the one end event of  *)
(* a press, which reaches the panel's listeners or the document's alone    *)
PressDown ==
    /\ ~gesture.down
    /\ \E e \in PressEvents : PressOn(e)
    /\ gesture' = [gesture EXCEPT !.down = TRUE]

ReleaseUp ==
    /\ gesture.down
    /\ \E onPanel \in BOOLEAN :
        LET t == ReleaseTimer(onPanel)
            m == onEnd(Machine)
        IN  /\ timer' = t
            /\ Commit(m)
            /\ gesture' = [GestureAfter(t, m, gesture.moved, gesture.pos)
                             EXCEPT !.down = FALSE]
    /\ UNCHANGED layout

NextLive ==
    \/ Tick
    \/ PressDown
    \/ HoldFires
    \/ Move
    \/ ReleaseUp
    \/ CleanupFires

(* Time passes and a timer that is due runs (setTimeout); every press is   *)
(* followed by its end event.  Nothing obliges the user to press or move.  *)
SpecLive ==
    /\ Init
    /\ [][NextLive]_vars
    /\ WF_vars(Tick)
    /\ WF_vars(HoldFires)
    /\ WF_vars(CleanupFires)
    /\ WF_vars(ReleaseUp)

(* The registry: the calls of bottomSheetInstance.ts, in any order *)
SetBottomSheet ==
    /\ \E i \in Instances :
        registry' = [registry EXCEPT !.instance = setBottomSheet(@, i),
                                     !.ret = Returned("set", Null),
                                     !.last = i]
    /\ UNCHANGED <<panel, emitter, probe, batch>>

GetBottomSheet ==
    /\ registry' = [registry EXCEPT !.ret = getBottomSheet(registry.instance)]
    /\ UNCHANGED <<panel, emitter, probe, batch>>

GetBottomSheetOrThrow ==
    /\ registry' = [registry EXCEPT !.ret = getBottomSheetOrThrow(registry.instance)]
    /\ UNCHANGED <<panel, emitter, probe, batch>>

IsBottomSheetInitialized ==
    /\ registry' = [registry EXCEPT !.ret = isBottomSheetInitialized(registry.instance)]
    /\ UNCHANGED <<panel, emitter, probe, batch>>

ClearBottomSheet ==
    /\ registry' = [registry EXCEPT !.instance = clearBottomSheet(@),
                                     !.ret = Returned("clear", Null),
                                     !.last = Null,
                                     !.cleared = TRUE]
    /\ UNCHANGED <<panel, emitter, probe, batch>>

NextRegistry ==
    \/ SetBottomSheet
    \/ GetBottomSheet
    \/ GetBottomSheetOrThrow
    \/ IsBottomSheetInitialized
    \/ ClearBottomSheet

SpecRegistry == Init /\ [][NextRegistry]_vars

(* The listeners: on(), off(), the page's own addEventListener on the      *)
(* panel and on the document, and open() and close() to dispatch events    *)
On ==
    /\ Len(emitter.tracked) < MaxTracked
    /\ \E type \in EventTypes, handler \in Handlers, capture \in OnCaptures :
        emitter' = on(emitter, type, handler, capture)
    /\ UNCHANGED <<panel, registry, probe, batch>>

Off ==
    /\ \E arg \in {NoArg} \cup {Arg(type) : type \in EventTypes \cup {""}} :
        emitter' = off(emitter, arg)
    /\ UNCHANGED <<panel, registry, probe, batch>>

AddEventListener ==
    /\ Cardinality(emitter.direct) < MaxDirect
    /\ \E node \in Nodes, type \in EventTypes, capture \in BOOLEAN :
        LET l == Listener(node, type, "f", capture)
        IN  emitter' = [emitter EXCEPT !.dom = addEventListener(@, l),
                                       !.direct = @ \cup {l}]
    /\ UNCHANGED <<panel, registry, probe, batch>>

NextListeners ==
    \/ On
    \/ Off
    \/ AddEventListener
    \/ Open
    \/ Close

SpecListeners == Init /\ [][NextListeners]_vars

(* The gesture classifier's scroll test on its own: the page gives one of  *)
(* its elements a scroll box and scrolls it, and the test is called with   *)
(* a start element in the panel and a direction                            *)
Overflows == {"visible", "hidden", "auto", "scroll"}
Scrollers == {"item", "list", "content", "panel", "container"}
ScrollHeights == {100, 300}
ProbeScrollTops == {0, 5, 6, 200}
ProbeStarts == {"handle", "closeBtn", "content", "list", "item", "panel"}
ProbeDeltas == {-6, 0, 6}

Scroll ==
    /\ \E el \in Scrollers, o \in Overflows, h \in ScrollHeights, st \in ProbeScrollTops :
        probe' = [probe EXCEPT !.scroller = el,
                               !.box = [overflowY |-> o, scrollHeight |-> h,
                                        clientHeight |-> 100],
                               !.scrollTop = st,
                               !.asked = FALSE]
    /\ UNCHANGED <<panel, registry, emitter, batch>>

AskScroll ==
    /\ \E el \in ProbeStarts, delta \in ProbeDeltas :
        probe' = [probe EXCEPT
                    !.asked = TRUE, !.start = el, !.delta = delta,
                    !.result = anyScrollableAncestorCanMove(
                                   el, delta, [scrollTop |-> probe.scrollTop])]
    /\ UNCHANGED <<panel, registry, emitter, batch>>

NextScroll ==
    \/ Scroll
    \/ AskScroll

SpecScroll == Init /\ [][NextScroll]_vars

(* helpers.ts: processBatchAsync.  requestIdleCallback and setTimeout both *)
(* run processBatch later, once per scheduling: scheduled.                 *)
ItemValues == {"a", "b"}

ItemArrays == UNION {[1..n -> ItemValues] : n \in 0..MaxItems}

BatchSizes == 0..MaxBatchSize

(* The call: currentIndex = 0 and processBatch scheduled *)
processBatchAsync(items, batchSize) ==
    [called |-> TRUE, items |-> items, batchSize |-> batchSize,
     currentIndex |-> 0, scheduled |-> TRUE, calls |-> <<>>, last |-> 0,
     odd |-> FALSE]

(* One run of processBatch: callback(items[i], i) for i from currentIndex  *)
(* up to endIndex - 1 (items[i] is the model's items[i + 1]), then the     *)
(* next run is scheduled if currentIndex < items.length                    *)
processBatch(b) ==
    LET endIndex == Min2(b.currentIndex + b.batchSize, Len(b.items))
        count == Max2(endIndex - b.currentIndex, 0)
        run == [k \in 1..count |->
                   [item |-> b.items[b.currentIndex + k],
                    index |-> b.currentIndex + k - 1]]
    IN  [b EXCEPT !.calls = @ \o run,
                  !.last = count,
                  !.odd = ~@,
                  !.currentIndex = endIndex,
                  !.scheduled = endIndex < Len(b.items)]

ProcessBatchAsync ==
    /\ ~batch.called
    /\ \E items \in ItemArrays, batchSize \in BatchSizes :
        batch' = processBatchAsync(items, batchSize)
    /\ UNCHANGED <<panel, registry, emitter, probe>>

ProcessBatch ==
    /\ batch.scheduled
    /\ batch' = processBatch(batch)
    /\ UNCHANGED <<panel, registry, emitter, probe>>

NextBatch ==
    \/ ProcessBatchAsync
    \/ ProcessBatch

(* A scheduled processBatch runs: the browser runs idle callbacks and      *)
(* expired timers.                                                         *)
SpecBatch ==
    /\ Init
    /\ [][NextBatch]_vars
    /\ WF_vars(ProcessBatch)

(* The public methods, presses and releases, the timers and the           *)
(* ResizeObserver: what the content wrapper's height depends on (a move    *)
(* writes the panel's size only).  close() and open() may be called one    *)
(* after the other in the same task.                                       *)
CloseOpen == Api(open(close(Machine)))

NextContent ==
    \/ Tick
    \/ Press
    \/ HoldFires
    \/ Release
    \/ CleanupFires
    \/ AdjustContentHeight
    \/ Open
    \/ Close
    \/ CloseOpen
    \/ Minimize
    \/ UpdatePanel
    \/ SetMinSize
    \/ SetMidSize
    \/ SetMaxSize

SpecContent == Init /\ [][NextContent]_vars

-----------------------------------------------------------------------------
(* Properties *)

SizeEvents == {"midsize", "minsize", "maxsize"}

NoSizeEvent(evs) == \A i \in DOMAIN evs : evs[i] \notin SizeEvents

(* The inline size on the device's axis *)
AxisStyle == IF isMobile THEN style.height ELSE style.width

(* The end event of a promoted drag *)
DragEnd == Release /\ state.isDragging

DragDuration == Now - state.dragStart

(* C1, as stated: after any completed drag (hold timer fired, zero or more *)
(* moves, then an end event), whatever the outcome, the panel's resulting  *)
(* size lies within [minSize, maxSize].                                    *)
C1_SettledSizeWithinBounds ==
    [][(DragEnd /\ options'.minSize <= options'.maxSize)
         => (options'.minSize <= PanelSize' /\ PanelSize' <= options'.maxSize)]_vars

(* What a completed drag leaves as the inline size on the device's axis *)
SettledInline ==
    \/ AxisStyle = NoSize
    \/ isMobile /\ AxisStyle = Pct(50)
    \/ /\ AxisStyle.u = "px"
       /\ options.minSize <= AxisStyle.v
       /\ AxisStyle.v <= options.maxSize

(* C1, amended: after any completed drag the inline size on the device's   *)
(* axis is unset (the stylesheet decides: no move was applied, or the      *)
(* desktop snapped to minimum), "50%" (mobile snap to mid) or a pixel      *)
(* value within [minSize, maxSize]; a snap to minimum leaves minSize px on *)
(* mobile and no inline width on desktop, a snap to maximum maxSize px,    *)
(* and no snap leaves what the last move wrote.                            *)
C1_SettledInlineSize ==
    [][DragEnd =>
         /\ SettledInline'
         /\ events' = <<"minsize">> =>
              AxisStyle' = IF isMobile THEN Px(options'.minSize) ELSE NoSize
         /\ events' = <<"maxsize">> => AxisStyle' = Px(options'.maxSize)
         /\ events' = <<"midsize">> => AxisStyle' = Pct(50)
         /\ events' = <<>> => style' = style]_vars

(* C1 witness: a desktop drag has ended without a snap on a panel whose    *)
(* stylesheet width exceeds maxSize, its width as the last move clamped it *)
C1_Witness ==
    /\ ~isMobile
    /\ ~state.isDragging
    /\ ~state.isMaximized
    /\ state.totalMovement > MoveThreshold
    /\ layout.cssSize > options.maxSize
    /\ style.width = Px(options.maxSize)
    /\ events = <<>>

(* C2, as stated: the release of a promoted press whose pointer never      *)
(* moved leaves the panel at the size it had before the press and emits no *)
(* size-change event.                                                      *)
C2_StillPressKeepsSize ==
    [][(DragEnd /\ gesture.moved = 0)
         => (PanelSize' = gesture.size0 /\ NoSizeEvent(events'))]_vars

(* C3, as stated: a drag that moved and lasted more than 500ms leaves the  *)
(* panel, after the release, at the size it had before the press.          *)
C3_LongDragKeepsSize ==
    [][(DragEnd /\ state.hasMoved /\ DragDuration > DurationThreshold)
         => PanelSize' = gesture.size0]_vars

(* C3, amended: the end event of a drag that lasted more than 500ms        *)
(* applies no snap: it changes no size, no size limit and no size flag and *)
(* emits no event, so the panel keeps the size the last move gave it.      *)
C3_LongDragEndsWithoutSnap ==
    [][(DragEnd /\ DragDuration > DurationThreshold)
         => /\ style' = style
            /\ options' = options
            /\ state'.isMinimized = state.isMinimized
            /\ state'.isMaximized = state.isMaximized
            /\ state'.isOpen = state.isOpen
            /\ events' = <<>>]_vars

(* C3 witness: a mobile drag that moved has ended more than 500ms after    *)
(* its promotion, the panel at the height of the last move                 *)
C3_Witness ==
    /\ isMobile
    /\ ~state.isDragging
    /\ state.totalMovement > MoveThreshold
    /\ state.dragStart < -DurationThreshold
    /\ state.prevPoint # state.startPoint
    /\ style.height = Px(state.startSize + state.startPoint - state.prevPoint)
    /\ bodyClasses = {}
    /\ events = <<>>

(* The end event of a mobile drag that moved and lasted at most 500ms *)
QuickEndMobile ==
    DragEnd /\ isMobile /\ state.hasMoved /\ DragDuration <= DurationThreshold

(* The snap named by the size event of a step *)
SnapOf(evs) == IF Len(evs) = 1 THEN evs[1] ELSE "none"

(* C4's rule as stated, the threshold 0.6 * maxSize compared in tenths *)
SnapStated(finalSize, startSize, maxSize) ==
    IF finalSize < startSize /\ finalSize * 10 < maxSize * 6 THEN "minsize"
    ELSE IF finalSize < startSize THEN "midsize"
    ELSE "maxsize"

(* C4, as stated: on mobile the snap at the end of a drag that moved and   *)
(* lasted at most 500ms is minimum when finalSize < startSize and          *)
(* finalSize < 0.6*maxSize, mid when finalSize < startSize and             *)
(* finalSize >= 0.6*maxSize, and maximum when finalSize >= startSize.      *)
C4_SnapAsStated ==
    [][QuickEndMobile
         => SnapOf(events') = SnapStated(PanelSize, state.startSize, options.maxSize)]_vars

(* C4's rule, amended *)
SnapAmended(finalSize, startSize, maxSize) ==
    IF finalSize < startSize /\ finalSize * 10 < maxSize * 6 THEN "minsize"
    ELSE IF finalSize < startSize /\ finalSize * 10 > maxSize * 6 THEN "midsize"
    ELSE IF finalSize > startSize /\ finalSize * 10 < maxSize * 6 THEN "midsize"
    ELSE "maxsize"

(* C4, amended: on mobile the snap at the end of a drag that moved and     *)
(* lasted at most 500ms is a function of (finalSize, startSize, maxSize):  *)
(* minimum when the panel shrank and ends below 0.6*maxSize, mid when it   *)
(* shrank and ends above 0.6*maxSize or grew and ends below 0.6*maxSize,   *)
(* maximum in every other case.                                            *)
C4_SnapRule ==
    [][QuickEndMobile
         => /\ SnapOf(events') = SnapAmended(PanelSize, state.startSize, options.maxSize)
            /\ SnapOf(events') = "minsize" => style'.height = Px(options'.minSize)
            /\ SnapOf(events') = "midsize" => style'.height = Pct(50)
            /\ SnapOf(events') = "maxsize" => style'.height = Px(options'.maxSize)]_vars

(* C4 witness: a mobile drag that grew the panel to less than 0.6*maxSize  *)
(* has ended within 500ms and snapped to mid                               *)
C4_Witness ==
    /\ isMobile
    /\ ~state.isDragging
    /\ state.totalMovement > MoveThreshold
    /\ state.dragStart >= -DurationThreshold
    /\ state.prevPoint < state.startPoint
    /\ (state.startSize + state.startPoint - state.prevPoint) * 10 < options.maxSize * 6
    /\ style.height = Pct(50)
    /\ events = <<"midsize">>

(* C5: on desktop the end of a drag that moved and lasted at most 500ms    *)
(* snaps to minimum when finalSize < startSize and to maximum otherwise;   *)
(* no midsize event and no "50%" size ever occurs on desktop, and          *)
(* setMidSize() has exactly the effect of setMaxSize().                    *)
C5_DesktopTwoTiers ==
    /\ [][(DragEnd /\ ~isMobile /\ state.hasMoved /\ DragDuration <= DurationThreshold)
            => /\ SnapOf(events') =
                    IF PanelSize < state.startSize THEN "minsize" ELSE "maxsize"
               /\ SnapOf(events') = "minsize" =>
                    style'.width = NoSize /\ state'.isMinimized /\ ~state'.isMaximized
               /\ SnapOf(events') = "maxsize" =>
                    style'.width = Px(options'.maxSize) /\ state'.isMaximized]_vars
    /\ [](~isMobile =>
            /\ \A i \in DOMAIN events : events[i] # "midsize"
            /\ style.width.u # "pct"
            /\ style.height.u # "pct"
            /\ setMidSize(Machine) = setMaxSize(Machine))

(* C5 witness: a desktop drag that moved and came back to its starting     *)
(* width has ended within 500ms and snapped to maximum                     *)
C5_Witness ==
    /\ ~isMobile
    /\ ~state.isDragging
    /\ state.totalMovement > MoveThreshold
    /\ state.lastDiff = 0
    /\ state.dragStart >= -DurationThreshold
    /\ state.isMaximized
    /\ style.width = Px(options.maxSize)
    /\ events = <<"maxsize">>

(* C6, as stated: while the hold timer is pending and not yet due, a       *)
(* release cancels it wherever on the page it happens, so that the         *)
(* drag-start handler cannot run for the released press.                   *)
C6_EarlyReleaseCancels ==
    (timer.pending /\ Now < timer.due)
        => \A onPanel \in BOOLEAN : ~ReleaseTimer(onPanel).pending

(* C7, as stated: while a drag stays active its start coordinate and start *)
(* size are kept, its start instant is not renewed, its accumulated        *)
(* movement does not fall and its has-moved flag is not withdrawn.         *)
C7_ActiveDragKeepsItsStart ==
    [][(state.isDragging /\ state'.isDragging)
         => /\ state'.startPoint = state.startPoint
            /\ state'.startSize = state.startSize
            /\ state'.dragStart <= state.dragStart
            /\ state'.totalMovement >= state.totalMovement
            /\ state.hasMoved => state'.hasMoved]_vars

(* C8: while the hold timer is pending a new press changes nothing: the    *)
(* timer keeps its event and is not restarted, and it fires once, leaving  *)
(* no timer behind.                                                        *)
C8_PendingPressIgnored ==
    /\ [][(timer.pending /\ \E e \in PressEvents : PressOn(e))
            => UNCHANGED <<timer, state, options, style, classList, bodyClasses,
                           contentHidden, cleanups>>]_vars
    /\ [][(timer.pending /\ timer'.pending)
            => (timer'.e = timer.e /\ timer'.due <= timer.due)]_vars
    /\ [][HoldFires => ~timer'.pending]_vars

(* C8 witness: a further press has arrived while the timer of a press on   *)
(* the handle was pending, and the timer is still the first press's, its   *)
(* delay run down                                                          *)
C8_Witness ==
    /\ timer.pending
    /\ ~state.isDragging
    /\ gesture.again
    /\ timer.e.target = "handle"
    /\ timer.due = 0

(* The move event e finds a scrollable ancestor of its target that can     *)
(* still scroll in the direction of the move                               *)
Ceded(e) ==
    /\ state.isDragging
    /\ isMobile
    /\ e.kind = "touch"
    /\ anyScrollableAncestorCanMove(e.target, e.clientY - state.prevPoint, e)

(* C9: during a mobile drag the handler of a move that a scrollable        *)
(* ancestor of the touch target can still take ends the drag at once and   *)
(* leaves size, size limits and size flags alone; while no drag is active, *)
(* the move and end handlers change neither the size nor any other field   *)
(* of the controller and emit no event.                                    *)
C9_CededMoveAbandonsDrag ==
    /\ \A e \in MoveEvents :
          Ceded(e) =>
            LET m == onMove(Machine, e)
            IN  /\ ~m.state.isDragging
                /\ m.style = style
                /\ m.options = options
                /\ m.state.isOpen = state.isOpen
                /\ m.state.isMinimized = state.isMinimized
                /\ m.state.isMaximized = state.isMaximized
                /\ NoSizeEvent(m.events)
    /\ ~state.isDragging =>
          /\ \A e \in MoveEvents : onMove(Machine, e) = Machine
          /\ onEnd(Machine) = Machine

(* C9 witness: a mobile drag has just been abandoned by a move, the panel  *)
(* at the size it had when the move arrived                                *)
C9_Witness ==
    /\ isMobile
    /\ ~state.isDragging
    /\ events = <<"dragging">>
    /\ state.prevPoint # state.startPoint
    /\ style.height = NoSize

(* C10, as stated: the has-moved flag is set only if the pointer travelled *)
(* more than 5px in the move events of the drag in progress.               *)
C10_RealDragNeedsOwnMovement ==
    (state.isDragging /\ state.hasMoved) => gesture.moved > MoveThreshold

(* C11: from any reachable state, close() followed at once by open()       *)
(* leaves the panel open, not minimized, not updating, without an inline   *)
(* height or width on the panel and without an inline height on the        *)
(* content wrapper, and emits a close event and then an open event.        *)
C11_CloseThenOpen ==
    LET m == open(close(Machine))
    IN  /\ m.state.isOpen
        /\ ~m.state.isMinimized
        /\ ~m.state.isUpdating
        /\ m.style = [height |-> NoSize, width |-> NoSize, wrapper |-> NoSize]
        /\ m.events = <<"close", "open">>

(* C11 witness: close() and open() have just run, one after the other, on *)
(* a panel at its maximum size on mobile                                   *)
C11_Witness ==
    /\ isMobile
    /\ events = <<"close", "open">>
    /\ state.isOpen
    /\ state.isMaximized
    /\ "bottomsheet-full" \in classList
    /\ style.wrapper = NoSize

(* C12: minimize() on a panel that is not open or is already minimized     *)
(* changes nothing and emits nothing; on an open panel that is not         *)
(* minimized it sets the minimized flag, clears the maximized flag, pins   *)
(* the height to minSize on mobile (clears the width on desktop) and emits *)
(* exactly one minimized event.                                            *)
C12_MinimizeContract ==
    LET m == minimize(Machine)
    IN  IF ~state.isOpen \/ state.isMinimized
        THEN m = Machine
        ELSE /\ m.state = [state EXCEPT !.isMinimized = TRUE, !.isMaximized = FALSE]
             /\ m.style = IF isMobile
                          THEN [style EXCEPT !.height = Px(options.minSize)]
                          ELSE [style EXCEPT !.width = NoSize]
             /\ m.options = options
             /\ m.events = <<"minimized">>

(* C12 witness: minimize() has just minimized an open panel on mobile      *)
C12_Witness ==
    /\ isMobile
    /\ events = <<"minimized">>
    /\ state.isOpen
    /\ state.isMinimized
    /\ ~state.isMaximized
    /\ style.height = Px(options.minSize)
    /\ "bottomsheet-minimized" \in classList

(* C13: in every reachable state the minimized and the maximized flag are  *)
(* not both set.                                                           *)
C13_MinMaxExclusive == ~(state.isMinimized /\ state.isMaximized)

(* C13 witness: the end of a drag has just snapped the panel to the        *)
(* minimum                                                                 *)
C13_Witness ==
    /\ state.isMinimized
    /\ ~state.isMaximized
    /\ ~state.isDragging
    /\ state.totalMovement > MoveThreshold
    /\ events = <<"minsize">>

(* C14: open() on a panel that is open and not updating snaps it to the    *)
(* mid size (the maximum on desktop) and emits no open event; open() on a  *)
(* closed panel, or on an open panel that updatePanel() flagged updating,  *)
(* marks it open, not minimized, not updating, clears the inline sizes and *)
(* emits exactly one open event.                                           *)
C14_OpenContract ==
    LET m == open(Machine)
    IN  IF state.isOpen /\ ~state.isUpdating
        THEN /\ m.events = <<IF isMobile THEN "midsize" ELSE "maxsize">>
             /\ m.style = IF isMobile
                          THEN [style EXCEPT !.height = Pct(50), !.width = NoSize]
                          ELSE [style EXCEPT !.height = NoSize,
                                             !.width = Px(m.options.maxSize)]
             /\ m.state.isMaximized = ~isMobile
             /\ m.state.isOpen /\ ~m.state.isMinimized /\ ~m.state.isUpdating
        ELSE /\ m.events = <<"open">>
             /\ m.style = [height |-> NoSize, width |-> NoSize, wrapper |-> NoSize]
             /\ m.state = [state EXCEPT !.isOpen = TRUE, !.isMinimized = FALSE,
                                        !.isUpdating = FALSE]

(* C14 witness: open() has just re-opened, on mobile, a panel that had     *)
(* been maximized before                                                   *)
C14_Witness ==
    /\ isMobile
    /\ events = <<"open">>
    /\ state.isOpen
    /\ ~state.isUpdating
    /\ state.isMaximized
    /\ style = [height |-> NoSize, width |-> NoSize, wrapper |-> NoSize]
    /\ "bottomsheet-updating" \notin classList

(* C15, as stated: every step that changes the open, the minimized or the *)
(* maximized flag, be it a public method or a step of a gesture, emits an  *)
(* event.                                                                  *)
C15_FlagChangeEmitsEvent ==
    [][(\/ state'.isOpen # state.isOpen
        \/ state'.isMinimized # state.isMinimized
        \/ state'.isMaximized # state.isMaximized) => events' # <<>>]_vars

(* C16: a move event handled while a drag is active emits exactly one      *)
(* dragging event, whether or not it resized the panel: also the move that *)
(* cedes the drag to an ancestor's scroll, and a move of a type that does  *)
(* not resize on the device (a touch move on desktop).                     *)
C16_EveryMoveEmitsDragging ==
    state.isDragging =>
        \A e \in MoveEvents : \A k \in {"mouse", "touch"} :
            onMove(Machine, [e EXCEPT !.kind = k]).events = <<"dragging">>

(* C16 witness: a touch move on desktop has just been handled during a     *)
(* drag: it resized nothing and the dragging event was emitted             *)
C16_Witness ==
    /\ ~isMobile
    /\ layout.input = "touch"
    /\ state.isDragging
    /\ gesture.moved > 0
    /\ style.width = NoSize
    /\ events = <<"dragging">>

(* C17: after any sequence of set and clear calls, the checked getter     *)
(* throws exactly when the slot is empty (no set yet, or none since the    *)
(* last clear) and otherwise returns the instance of the last set; the     *)
(* tolerant getter returns that instance or null; the presence check is    *)
(* true exactly when the slot is not empty, and false after clear.         *)
C17_RegistryContract ==
    LET slot == registry.instance
        empty == registry.last = Null
    IN  /\ getBottomSheetOrThrow(slot).threw = empty
        /\ ~empty => getBottomSheetOrThrow(slot).value = registry.last
        /\ getBottomSheet(slot) = Returned("get", registry.last)
        /\ isBottomSheetInitialized(slot).value = ~empty
        /\ ~isBottomSheetInitialized(clearBottomSheet(slot)).value
        /\ getBottomSheetOrThrow(clearBottomSheet(slot)).threw

(* C17 witness: the checked getter has just returned the instance set      *)
(* after a clear                                                           *)
C17_Witness ==
    /\ registry.cleared
    /\ registry.last = MaxInstances
    /\ registry.ret = Returned("getOrThrow", MaxInstances)

(* C18, as stated: off() without an argument detaches every listener that *)
(* was registered through on() and leaves the listeners the page attached  *)
(* to the panel itself; off(type) detaches the listeners registered        *)
(* through on() for that type, and no listener of another type.            *)
C18_OffDetachesItsOwnOnly ==
    LET own == {Listener("panel", emitter.tracked[i].type, emitter.tracked[i].handler,
                         emitter.tracked[i].capture) : i \in DOMAIN emitter.tracked}
        kept(em) == \A l \in emitter.direct \cap emitter.dom : l \in em.dom
    IN  /\ kept(off(emitter, NoArg))
        /\ \A l \in own \ emitter.direct : l \notin off(emitter, NoArg).dom
        /\ \A type \in EventTypes \cup {""} :
            LET em == off(emitter, Arg(type))
            IN  /\ kept(em)
                /\ \A l \in emitter.dom : l.type # type => l \in em.dom
                /\ \A l \in own \ emitter.direct : l.type = type => l \notin em.dom

(* C19, as stated: a listener on the document for the open event (for the *)
(* close event) is invoked, with the event's detail, each time open()      *)
(* (close()) dispatches that event.                                        *)
C19_DocumentListenerHears ==
    [][(Open \/ Close) =>
        \A l \in emitter.dom :
            (l.node = "document" /\ \E i \in DOMAIN events' : events'[i] = l.type)
                => [listener |-> l, detail |-> Detail] \in emitter'.invoked]_vars

(* C20, as stated: when the hold timer fires and promotes a press to a     *)
(* drag, the start size recorded is the size the panel had when it was     *)
(* pressed, and the promotion leaves the panel's size as it was.           *)
C20_PromotionKeepsSize ==
    [][(HoldFires /\ ~state.isDragging /\ state'.isDragging)
        => (state'.startSize = gesture.size0 /\ PanelSize' = PanelSize)]_vars

(* The size a move at point p should give: startSize plus the distance    *)
(* from the start point, kept within [minSize, maxSize]                    *)
Clamped(p) ==
    Max2(options.minSize,
         Min2(options.maxSize, state.startSize + (state.startPoint - p)))

(* C21, as stated: during a drag, every move that is not ceded to an       *)
(* ancestor's scroll sets the panel's size to startSize + (startPoint -    *)
(* currentPoint) clamped to [minSize, maxSize], so that the live size      *)
(* stays within the limits when minSize <= maxSize.                        *)
C21_MoveSetsClampedSize ==
    state.isDragging =>
        \A e \in MoveEvents :
            ~Ceded(e) =>
                LET p == IF isMobile THEN e.clientY ELSE e.clientX
                    size == SizeOf(onMove(Machine, e).style)
                IN  /\ size = Clamped(p)
                    /\ options.minSize <= options.maxSize =>
                         (options.minSize <= size /\ size <= options.maxSize)

(* The elements inside the panel, and the chain from an element upwards *)
Inside == DOMAIN Parent \ {"panel", "container"}

RECURSIVE SelfOrAncestor(_, _)
SelfOrAncestor(a, el) ==
    \/ a = el
    \/ el \in DOMAIN Parent /\ SelfOrAncestor(a, Parent[el])

(* C22: the scroll test is true exactly when some element on the chain     *)
(* from the start element up to, and without, the panel is scrollable on   *)
(* the vertical axis (overflow-y auto or scroll, content taller than the   *)
(* box) and has room in the direction asked for: scrollTop > 5 for a       *)
(* positive delta, scrollTop + clientHeight < scrollHeight for a negative  *)
(* one; it is false for delta 0, and the panel and what lies above it do   *)
(* not count.                                                              *)
C22_ScrollTestContract ==
    probe.asked =>
        probe.result =
            \E a \in Inside :
                /\ SelfOrAncestor(a, probe.start)
                /\ a = probe.scroller
                /\ probe.box.overflowY \in {"auto", "scroll"}
                /\ probe.box.scrollHeight > probe.box.clientHeight
                /\ \/ probe.delta > 0 /\ probe.scrollTop > 5
                   \/ /\ probe.delta < 0
                      /\ probe.scrollTop + probe.box.clientHeight
                            < probe.box.scrollHeight

(* C22 witness: the test has just answered yes for an item of a list that  *)
(* is scrolled by 6px, asked for a downward move                           *)
C22_Witness ==
    /\ probe.asked
    /\ probe.result
    /\ probe.start = "item"
    /\ probe.scroller = "list"
    /\ probe.scrollTop = 6
    /\ probe.delta > 0

(* el lies inside (or is) one of the elements of S *)
InsideOf(el, S) == \E a \in S : SelfOrAncestor(a, el)

(* C23: the promotion of a press whose origin lies inside an interactive   *)
(* element changes nothing, also when that element is inside the handle,   *)
(* the header or the content region; a press with any other origin is      *)
(* promoted to a drag exactly when the origin lies inside the handle, the  *)
(* header or the content region, and changes nothing otherwise.            *)
C23_InteractiveOriginNeverDrags ==
    \A target \in DOMAIN Parent : \A p \in PressPoints :
        LET m == onStart(Machine, [kind |-> layout.input, target |-> target,
                                   clientX |-> p, clientY |-> p])
            promoted == /\ m.state.isDragging
                        /\ m.state.dragStart = Now
                        /\ m.state.startPoint = p
                        /\ {"select-none", "overflow-hidden"} \subseteq m.bodyClasses
        IN  IF InsideOf(target, Interactive) THEN m = Machine
            ELSE IF InsideOf(target, {"handle", "header", "content"}) THEN promoted
            ELSE m = Machine

(* C23 witness: the hold timer of a press on the handle has just fired    *)
(* and started a drag                                                      *)
C23_Witness ==
    /\ state.isDragging
    /\ ~timer.pending
    /\ state.dragStart = Now
    /\ state.startPoint = 200
    /\ state.totalMovement = 0
    /\ bodyClasses = {"select-none", "overflow-hidden"}
    /\ events = <<>>

(* C24, as stated: in every reachable state in which no drag is active,   *)
(* the body carries neither of the classes that suppress text selection    *)
(* and background scroll, and the panel does not carry the dragging class. *)
C24_NoLockWithoutDrag ==
    ~state.isDragging =>
        /\ bodyClasses \cap {"select-none", "overflow-hidden"} = {}
        /\ "bottomsheet-dragging" \notin classList

(* C25, as stated: in every reachable state with no drag in progress,    *)
(* isMaximized() returning true implies that the panel's explicit size on  *)
(* the device's axis equals maxSize.                                       *)
C25_MaximizedMeansMaxSize ==
    (~state.isDragging /\ isMaximized(Machine)) => AxisStyle = Px(options.maxSize)

(* C26, as stated: on mobile, once every pending class cleanup has fired, *)
(* the panel carries the full visual flag if and only if the maximized     *)
(* flag is set.                                                            *)
C26_CleanupKeepsFullFlag ==
    (isMobile /\ cleanups = {}) =>
        ("bottomsheet-full" \in classList <=> state.isMaximized)

(* The panel as close() leaves it: open flag false, no inline size *)
ClosedPanel(m) ==
    /\ ~m.state.isOpen
    /\ m.style.height = NoSize
    /\ m.style.width = NoSize

(* C27, as stated, for the first event delivered after close(): in every  *)
(* reachable state, when close() runs and is followed by the pending hold  *)
(* timer firing, by a move event or by an end event, the panel is still    *)
(* closed (open flag false, no inline size).                               *)
C27_ClosedStaysClosed ==
    LET c == close(Machine)
    IN  /\ timer.pending => ClosedPanel(onStart(c, timer.e))
        /\ \A e \in MoveEvents : ClosedPanel(onMove(c, e))
        /\ ClosedPanel(onEnd(c))

(* The drag state machine's Idle: no pending hold timer, not Dragging *)
Idle == ~timer.pending /\ ~state.isDragging

(* C28, as stated: when every press is followed by one end event and      *)
(* timers fire, after every press the controller eventually is Idle with   *)
(* the pointer up, and it stays Idle until the next press.                 *)
C28_EventuallyIdle ==
    /\ gesture.down ~> (Idle /\ ~gesture.down)
    /\ [][(Idle /\ ~PressDown) => Idle']_vars

(* What the callback is to have been called with, in order *)
ExpectedCalls ==
    [i \in 1..Len(batch.items) |-> [item |-> batch.items[i], index |-> i - 1]]

BatchDone == batch.called /\ ~batch.scheduled /\ batch.calls = ExpectedCalls

(* C29, as stated: processBatchAsync returns without having invoked the   *)
(* callback; for every items array and every batchSize the calls made so   *)
(* far are the first of (items[0], 0), (items[1], 1), ... in this order,   *)
(* no batch makes more than batchSize of them, and eventually every item   *)
(* has had its call and no further batch is scheduled, for good.           *)
C29_BatchesComplete ==
    /\ [][ProcessBatchAsync => batch'.calls = <<>>]_vars
    /\ [](batch.called =>
            /\ Len(batch.calls) <= Len(ExpectedCalls)
            /\ batch.calls = SubSeq(ExpectedCalls, 1, Len(batch.calls))
            /\ batch.last <= Max2(batch.batchSize, 0))
    /\ batch.called ~> BatchDone
    /\ [][BatchDone => BatchDone']_vars

====
